---------------------------- MODULE Spec2Model ----------------------------
(***************************************************************************)
(* Model of AnalyzeTrades.py: the loader/merger (load_and_merge_files),    *)
(* the statistics engine (calculate_statistics) and the top-level script   *)
(* that chains them (upload guard, sort, strategy filter, statistics,      *)
(* streak histogram and daily profit plot).                                *)
(*                                                                         *)
(* Representation choices                                                  *)
(*  - a text cell is a sequence of one-character strings;                  *)
(*  - a float is kept in sign/magnitude form as the exact decimal          *)
(*    [neg, num, scale] = (-1)^neg * num / 10^scale (so "-0" keeps its     *)
(*    sign bit, as an IEEE double does); sums and means are exact;         *)
(*  - an entry-time text "Y-M-D H:00" is the tuple <<Y, M, D, H>> of its   *)
(*    fields; a parsed Timestamp is the record [year, month, day, hour];   *)
(*  - a DataFrame is the sequence of its rows, each row a record carrying  *)
(*    its index label and one field per column;                            *)
(*  - an optional value is a sequence of length 0 (absent) or 1.           *)
(***************************************************************************)
EXTENDS Integers, Sequences, FiniteSets, TLC

VARIABLES
    uploaded_files,       \* the uploaded sheets: a sequence of sequences of raw rows
    pc,                   \* position of the script
    dataframes,           \* load_and_merge_files: per-file frames appended so far
    merged_df,            \* script variable merged_df
    selected_strategies,  \* script variable selected_strategies
    filtered_df,          \* script variable filtered_df (the df given to calculate_statistics)
    result,               \* optional: the 5-tuple returned by calculate_statistics
    grouped_streaks,      \* optional: the streak histogram table
    daily_plot            \* optional: the frame given to the daily profit line plot

vars == <<uploaded_files, pc, dataframes, merged_df, selected_strategies,
          filtered_df, result, grouped_streaks, daily_plot>>

---------------------------------------------------------------------------
(* Bounds of the model *)

MaxFiles == 2       \* uploaded files
MaxRows == 3        \* rows over all uploaded files together
MaxLen == 4         \* characters of an enumerated profit text
MaxTrades == 3      \* records of a trade set given directly to calculate_statistics

---------------------------------------------------------------------------
(* Generic helpers *)

RECURSIVE Pow10(_)
Pow10(k) == IF k = 0 THEN 1 ELSE 10 * Pow10(k - 1)

Max(a, b) == IF a >= b THEN a ELSE b

RECURSIVE SeqSum(_)
SeqSum(s) == IF s = <<>> THEN 0 ELSE s[1] + SeqSum(Tail(s))

\* the elements of a finite set of integers in ascending order
RECURSIVE SortedSeq(_)
SortedSeq(S) ==
    IF S = {} THEN <<>>
    ELSE LET m == CHOOSE x \in S : \A y \in S : x <= y
         IN <<m>> \o SortedSeq(S \ {m})

---------------------------------------------------------------------------
(* Profit normalisation: line 13 *)

Digits == {"0", "1", "2", "3", "4", "5", "6", "7", "8", "9"}

DigitVal(c) ==
    CASE c = "0" -> 0 [] c = "1" -> 1 [] c = "2" -> 2 [] c = "3" -> 3
      [] c = "4" -> 4 [] c = "5" -> 5 [] c = "6" -> 6 [] c = "7" -> 7
      [] c = "8" -> 8 [] c = "9" -> 9

\* mutation: the character class lacks ')'
StripCharsKeepsParen(t) == SelectSeq(t, LAMBDA c : c \notin {"$", ","})

\* .replace('[\$,)]', '', regex=True): every '$', ',' and ')' is deleted
StripChars(t) == SelectSeq(t, LAMBDA c : c \notin {"$", ",", ")"})

\* .replace('[(]', '-', regex=True): every '(' becomes '-'
ParenToMinus(t) == [i \in DOMAIN t |-> IF t[i] = "(" THEN "-" ELSE t[i]]

RECURSIVE DigitsToNat(_)
DigitsToNat(s) ==
    IF s = <<>> THEN 0
    ELSE DigitsToNat(SubSeq(s, 1, Len(s) - 1)) * 10 + DigitVal(s[Len(s)])

\* float(str) on the characters of the model's alphabet: an optional sign,
\* then digits with at most one '.', at least one digit in all.
FloatSyntaxOK(s) ==
    LET body == IF s # <<>> /\ s[1] \in {"-", "+"} THEN Tail(s) ELSE s
    IN /\ \A i \in DOMAIN body : body[i] \in Digits \cup {"."}
       /\ Cardinality({i \in DOMAIN body : body[i] = "."}) <= 1
       /\ \E i \in DOMAIN body : body[i] \in Digits

ParseFloat(s) ==
    LET body == IF s[1] \in {"-", "+"} THEN Tail(s) ELSE s
        dots == {i \in DOMAIN body : body[i] = "."}
        dot  == IF dots = {} THEN Len(body) + 1 ELSE CHOOSE i \in dots : TRUE
    IN [neg   |-> s[1] = "-",
        num   |-> DigitsToNat(SelectSeq(body, LAMBDA c : c \in Digits)),
        scale |-> IF dots = {} THEN 0 ELSE Len(body) - dot]

\* the whole of line 13 on one cell: optional float (<<>> = astype raises ValueError)
NormalizeProfit(t) ==
    LET s == ParenToMinus(StripChars(t))
    IN IF FloatSyntaxOK(s) THEN <<ParseFloat(s)>> ELSE <<>>

---------------------------------------------------------------------------
(* Exact arithmetic on the floats *)

Signed(f, s) == (IF f.neg THEN -1 ELSE 1) * f.num * Pow10(s - f.scale)

RECURSIVE MaxScale(_)
MaxScale(fs) == IF fs = <<>> THEN 0 ELSE Max(fs[1].scale, MaxScale(Tail(fs)))

\* Series.sum() of floats: the exact sum, as the decimal [val, scale] = val / 10^scale
FSum(fs) ==
    LET s == MaxScale(fs)
    IN [val |-> SeqSum([i \in DOMAIN fs |-> Signed(fs[i], s)]), scale |-> s]

\* Series.mean() of decimals: the exact quotient [num, scale, den] = num / (10^scale * den)
Mean(ds) ==
    LET s == MaxScale(ds)
    IN [num   |-> SeqSum([i \in DOMAIN ds |-> ds[i].val * Pow10(s - ds[i].scale)]),
        scale |-> s,
        den   |-> Len(ds)]

\* the integer n as a decimal
Dec(n) == [val |-> n, scale |-> 0]

\* the literal 0 returned for each mean on an empty frame
Zero == [num |-> 0, scale |-> 0, den |-> 1]

---------------------------------------------------------------------------
(* Timestamps: lines 17, 27, 31 *)

IsLeap(y) == (y % 4 = 0 /\ y % 100 # 0) \/ y % 400 = 0

DaysInMonth(y, m) ==
    IF m = 2 THEN (IF IsLeap(y) THEN 29 ELSE 28)
    ELSE IF m \in {4, 6, 9, 11} THEN 30 ELSE 31

\* pd.to_datetime on one text cell <<Y, M, D, H>>: optional Timestamp
ToDatetime(t) ==
    IF /\ t[2] \in 1..12
       /\ t[3] \in 1..DaysInMonth(t[1], t[2])
       /\ t[4] \in 0..23
    THEN <<[year |-> t[1], month |-> t[2], day |-> t[3], hour |-> t[4]]>>
    ELSE <<>>

\* .dt.date
DateOf(ts) == [year |-> ts.year, month |-> ts.month, day |-> ts.day]

\* .dt.to_period('M')
PeriodM(ts) == [year |-> ts.year, month |-> ts.month]

\* ordinals giving the order of Timestamps, dates and periods
TsKey(ts) == ((ts.year * 12 + (ts.month - 1)) * 31 + (ts.day - 1)) * 24 + ts.hour
DateKey(d) == (d.year * 12 + (d.month - 1)) * 31 + (d.day - 1)
PeriodKey(p) == p.year * 12 + (p.month - 1)

\* strftime('%d-%m-%Y'): the text "DD-MM-YYYY" as its fields
Strftime(d) == <<d.day, d.month, d.year>>

---------------------------------------------------------------------------
(* calculate_statistics: lines 21-54 *)

\* line 27: df['Date'] = pd.to_datetime(df['Entry time']).dt.date
\* (the column is already datetime; to_datetime leaves it as it is)
WithDate(df) ==
    [i \in DOMAIN df |->
        [index      |-> df[i].index,
         Entry_time |-> df[i].Entry_time,
         Profit     |-> df[i].Profit,
         Strategy   |-> df[i].Strategy,
         Date       |-> DateOf(df[i].Entry_time)]]

\* df.groupby('Date'): one group per distinct date, in ascending date order
\* (sort=True), each holding its rows in frame order
GroupByDate(df) ==
    LET keys == {df[i].Date : i \in DOMAIN df}
        ords == SortedSeq({DateKey(k) : k \in keys})
    IN [j \in DOMAIN ords |->
          LET k == CHOOSE x \in keys : DateKey(x) = ords[j]
          IN [key |-> k, rows |-> SelectSeq(df, LAMBDA r : r.Date = k)]]

\* df.groupby(df['Entry time'].dt.to_period('M')): one group per distinct
\* (year, month) period, ascending
GroupByPeriod(df) ==
    LET keys == {PeriodM(df[i].Entry_time) : i \in DOMAIN df}
        ords == SortedSeq({PeriodKey(k) : k \in keys})
    IN [j \in DOMAIN ords |->
          LET k == CHOOSE x \in keys : PeriodKey(x) = ords[j]
          IN [key |-> k, rows |-> SelectSeq(df, LAMBDA r : PeriodM(r.Entry_time) = k)]]

ProfitsOf(rows) == [i \in DOMAIN rows |-> rows[i].Profit]

\* line 29: df.groupby('Date').size()
trades_by_day(df) ==
    LET g == GroupByDate(df)
    IN [j \in DOMAIN g |-> [Date |-> g[j].key, size |-> Len(g[j].rows)]]

\* mutation: first() in place of sum()
daily_profits_first(df) ==
    LET g == GroupByDate(df)
    IN [j \in DOMAIN g |-> [Date |-> g[j].key, Profit |-> FSum(<<g[j].rows[1].Profit>>)]]

\* lines 30, 34: df.groupby('Date')['Profit'].sum()
daily_profits_of(df) ==
    LET g == GroupByDate(df)
    IN [j \in DOMAIN g |-> [Date |-> g[j].key, Profit |-> FSum(ProfitsOf(g[j].rows))]]

\* mutation: grouping by .dt.month, the month number without the year
monthly_profits_by_month_number(df) ==
    LET months == SortedSeq({df[i].Entry_time.month : i \in DOMAIN df})
    IN [j \in DOMAIN months |->
          [Period |-> months[j],
           Profit |-> FSum(ProfitsOf(SelectSeq(df, LAMBDA r : r.Entry_time.month = months[j])))]]

\* line 31: df.groupby(df['Entry time'].dt.to_period('M'))['Profit'].sum()
monthly_profits_of(df) ==
    LET g == GroupByPeriod(df)
    IN [j \in DOMAIN g |-> [Period |-> g[j].key, Profit |-> FSum(ProfitsOf(g[j].rows))]]

\* mutation: <= in place of <
loss_days_le(dp) == [i \in DOMAIN dp |-> dp[i].Profit.val <= 0]

\* line 35: loss_days = daily_profits < 0
loss_days_of(dp) == [i \in DOMAIN dp |-> dp[i].Profit.val < 0]

\* line 38: (loss_days != loss_days.shift()).cumsum(); the first entry differs
\* from the NaN that shift() puts before it
streak_id_of(ld) ==
    LET changed(i) == IF i = 1 THEN TRUE ELSE ld[i] # ld[i - 1]
    IN [i \in DOMAIN ld |-> Cardinality({j \in 1..i : changed(j)})]

\* line 39: loss_days.groupby(streak_id).agg(['sum', 'min']), one row per id
loss_streaks_of(ld) ==
    LET sid == streak_id_of(ld)
        n   == IF ld = <<>> THEN 0 ELSE sid[Len(ld)]
    IN [g \in 1..n |->
          LET members == {i \in DOMAIN ld : sid[i] = g}
          IN [id    |-> g,
              sum   |-> Cardinality({i \in members : ld[i]}),
              min   |-> \A i \in members : ld[i],
              \* line 45: apply(lambda x: x.index[0])
              first |-> CHOOSE i \in members : \A j \in members : i <= j]]

\* line 42: loss_streaks[(min == True) & (sum >= 1)]
valid_streaks_of(ld) ==
    SelectSeq(loss_streaks_of(ld), LAMBDA s : s.min = TRUE /\ s.sum >= 1)

\* lines 45-52: the streak table, reset_index(drop=True)
streaks_df_of(dp) ==
    LET vs == valid_streaks_of(loss_days_of(dp))
    IN [k \in DOMAIN vs |->
          [index                 |-> k - 1,
           Consecutive_Loss_Days |-> vs[k].sum,
           Start_Date            |-> Strftime(dp[vs[k].first].Date)]]

\* mutation: no early return on an empty frame (the means of nothing are NaN)
calculate_statistics_unguarded(df) ==
    LET d  == WithDate(df)
        dp == daily_profits_of(d)
        tp == trades_by_day(d)
        mp == monthly_profits_of(d)
    IN [trades_per_day   |-> Mean([j \in DOMAIN tp |-> Dec(tp[j].size)]),
        profit_per_day   |-> Mean([j \in DOMAIN dp |-> dp[j].Profit]),
        profit_per_month |-> Mean([j \in DOMAIN mp |-> mp[j].Profit]),
        streaks_df       |-> streaks_df_of(dp),
        daily_profits    |-> dp]

\* the five values returned (lines 24 and 54)
calculate_statistics(df) ==
    IF df = <<>>
    THEN [trades_per_day   |-> Zero,
          profit_per_day   |-> Zero,
          profit_per_month |-> Zero,
          streaks_df       |-> <<>>,
          daily_profits    |-> <<>>]
    ELSE LET d  == WithDate(df)
             dp == daily_profits_of(d)
             tp == trades_by_day(d)
             mp == monthly_profits_of(d)
         IN [trades_per_day   |-> Mean([j \in DOMAIN tp |-> Dec(tp[j].size)]),
             profit_per_day   |-> Mean([j \in DOMAIN dp |-> dp[j].Profit]),
             profit_per_month |-> Mean([j \in DOMAIN mp |-> mp[j].Profit]),
             streaks_df       |-> streaks_df_of(dp),
             daily_profits    |-> dp]

\* the frame the caller holds after the call: line 27 writes the Date column
\* into the argument itself, unless the early return of line 22 is taken
df_after_call(df) == IF df = <<>> THEN df ELSE WithDate(df)

---------------------------------------------------------------------------
(* load_and_merge_files: lines 7-18 *)

\* line 10: pd.read_excel(file): the rows of the sheet under a RangeIndex
ReadExcel(file) ==
    [i \in DOMAIN file |->
        [index      |-> i - 1,
         Entry_time |-> file[i].Entry_time,
         Profit     |-> file[i].Profit,
         Strategy   |-> file[i].Strategy]]

\* mutation: cells that are no number are coerced and their rows dropped
astype_float_coerce(df) ==
    LET ok == SelectSeq(df, LAMBDA r : NormalizeProfit(r.Profit) # <<>>)
    IN <<[i \in DOMAIN ok |->
            [ok[i] EXCEPT !.Profit = NormalizeProfit(ok[i].Profit)[1]]]>>

\* line 13 on the whole column: optional frame; astype(float) raises on the
\* first cell that is no number and no column is assigned
astype_float(df) ==
    IF \A i \in DOMAIN df : NormalizeProfit(df[i].Profit) # <<>>
    THEN <<[i \in DOMAIN df |->
              [df[i] EXCEPT !.Profit = NormalizeProfit(df[i].Profit)[1]]]>>
    ELSE <<>>

RECURSIVE Flatten(_)
Flatten(ss) == IF ss = <<>> THEN <<>> ELSE ss[1] \o Flatten(Tail(ss))

\* line 16: pd.concat(dataframes, ignore_index=True): every row of every
\* frame, in order, relabelled 0..N-1
Concat(dfs) ==
    LET all == Flatten(dfs)
    IN [i \in DOMAIN all |-> [all[i] EXCEPT !.index = i - 1]]

\* line 17 on the whole column: optional frame; to_datetime raises on the
\* first cell that is no date-time
to_datetime(df) ==
    IF \A i \in DOMAIN df : ToDatetime(df[i].Entry_time) # <<>>
    THEN <<[i \in DOMAIN df |->
              [df[i] EXCEPT !.Entry_time = ToDatetime(df[i].Entry_time)[1]]]>>
    ELSE <<>>

---------------------------------------------------------------------------
(* The script: lines 56-152 *)

\* mutation: ascending=False
SortOrdersDescending(df) ==
    {p \in Permutations(DOMAIN df) :
        \A i, j \in DOMAIN df :
            i < j => TsKey(df[p[i]].Entry_time) >= TsKey(df[p[j]].Entry_time)}

\* line 65: sort_values(by='Entry time') with the default kind='quicksort',
\* which is not a stable sort: the orders it may produce are all the
\* arrangements of the rows in which the entry times do not decrease
SortOrders(df) ==
    {p \in Permutations(DOMAIN df) :
        \A i, j \in DOMAIN df :
            i < j => TsKey(df[p[i]].Entry_time) <= TsKey(df[p[j]].Entry_time)}

\* line 72: merged_df['Strategy'].unique()
unique_strategies(df) == {df[i].Strategy : i \in DOMAIN df}

\* line 83: merged_df[merged_df['Strategy'].isin(selected_strategies)]
\* (a new frame; the rows keep their index labels)
FilterStrategies(df, selected) == SelectSeq(df, LAMBDA r : r.Strategy \in selected)

\* line 109
max_dates_in_tooltip == 10

\* lines 97-112: the streaks grouped by length, ascending, with the list of
\* start dates, their count and the tooltip text (the first
\* max_dates_in_tooltip dates, and whether '...' follows)
grouped_streaks_of(streaks) ==
    LET lens == SortedSeq({streaks[i].Consecutive_Loss_Days : i \in DOMAIN streaks})
    IN [j \in DOMAIN lens |->
          LET grp   == SelectSeq(streaks, LAMBDA r : r.Consecutive_Loss_Days = lens[j])
              dates == [i \in DOMAIN grp |-> grp[i].Start_Date]
          IN [Consecutive_Loss_Days |-> lens[j],
              Start_Date            |-> dates,
              Count                 |-> Len(dates),
              All_Start_Dates       |->
                  [shown |-> SubSeq(dates, 1, IF Len(dates) > max_dates_in_tooltip
                                              THEN max_dates_in_tooltip ELSE Len(dates)),
                   more  |-> Len(dates) > max_dates_in_tooltip]]]

\* lines 139-140: daily_profits.reset_index() with 'Date' made a Timestamp
daily_plot_of(dp) ==
    [j \in DOMAIN dp |->
        [index  |-> j - 1,
         Date   |-> [year |-> dp[j].Date.year, month |-> dp[j].Date.month,
                     day |-> dp[j].Date.day, hour |-> 0],
         Profit |-> dp[j].Profit]]

\* line 62: if uploaded_files: -- with no file the script computes nothing
UploadGuard ==
    /\ pc = "start"
    /\ pc' = IF uploaded_files # <<>> THEN "load" ELSE "idle"
    /\ UNCHANGED <<uploaded_files, dataframes, merged_df, selected_strategies,
                   filtered_df, result, grouped_streaks, daily_plot>>

\* lines 9-15: one turn of the loop over the files
LoadFile ==
    /\ pc = "load"
    /\ Len(dataframes) < Len(uploaded_files)
    /\ LET df == astype_float(ReadExcel(uploaded_files[Len(dataframes) + 1]))
       IN IF df # <<>>
          THEN /\ dataframes' = Append(dataframes, df[1])
               /\ pc' = pc
          ELSE /\ dataframes' = <<>>       \* ValueError leaves the function
               /\ pc' = "error"
    /\ UNCHANGED <<uploaded_files, merged_df, selected_strategies,
                   filtered_df, result, grouped_streaks, daily_plot>>

\* lines 16-18 and the assignment of line 64
ConcatAndParse ==
    /\ pc = "load"
    /\ Len(dataframes) = Len(uploaded_files)
    /\ LET df == IF dataframes = <<>>
                 THEN <<>>                 \* pd.concat([]) raises ValueError
                 ELSE to_datetime(Concat(dataframes))
       IN IF df # <<>>
          THEN /\ merged_df' = df[1]
               /\ pc' = "sort"
          ELSE /\ merged_df' = merged_df
               /\ pc' = "error"
    /\ dataframes' = <<>>
    /\ UNCHANGED <<uploaded_files, selected_strategies,
                   filtered_df, result, grouped_streaks, daily_plot>>

\* line 65
SortValues ==
    /\ pc = "sort"
    /\ \E p \in SortOrders(merged_df) :
          merged_df' = [i \in DOMAIN merged_df |-> merged_df[p[i]]]
    /\ pc' = "filter"
    /\ UNCHANGED <<uploaded_files, dataframes, selected_strategies,
                   filtered_df, result, grouped_streaks, daily_plot>>

\* lines 72-83: the checkboxes select any subset of the strategies present
SelectStrategies ==
    /\ pc = "filter"
    /\ \E sel \in SUBSET unique_strategies(merged_df) :
          /\ selected_strategies' = sel
          /\ filtered_df' = FilterStrategies(merged_df, sel)
    /\ pc' = "stats"
    /\ UNCHANGED <<uploaded_files, dataframes, merged_df,
                   result, grouped_streaks, daily_plot>>

\* line 86: the call of calculate_statistics on filtered_df
CalculateStatistics ==
    /\ pc = "stats"
    /\ result' = <<calculate_statistics(filtered_df)>>
    /\ filtered_df' = df_after_call(filtered_df)
    /\ pc' = "hist"
    /\ UNCHANGED <<uploaded_files, dataframes, merged_df, selected_strategies,
                   grouped_streaks, daily_plot>>

\* lines 93-134
StreakHistogram ==
    /\ pc = "hist"
    /\ grouped_streaks' = <<grouped_streaks_of(result[1].streaks_df)>>
    /\ pc' = "plot"
    /\ UNCHANGED <<uploaded_files, dataframes, merged_df, selected_strategies,
                   filtered_df, result, daily_plot>>

\* lines 136-152
DailyProfitPlot ==
    /\ pc = "plot"
    /\ daily_plot' = <<daily_plot_of(result[1].daily_profits)>>
    /\ pc' = "done"
    /\ UNCHANGED <<uploaded_files, dataframes, merged_df, selected_strategies,
                   filtered_df, result, grouped_streaks>>

Next ==
    \/ UploadGuard
    \/ LoadFile
    \/ ConcatAndParse
    \/ SortValues
    \/ SelectStrategies
    \/ CalculateStatistics
    \/ StreakHistogram
    \/ DailyProfitPlot

---------------------------------------------------------------------------
(* Inputs *)

Txt1 == <<"(", "1", ")">>
Txt2 == <<"$", "2">>
Txt3 == <<"-", "1", ".", "5">>
TxtBad == <<"(", "-", "1", ")">>

\* the sheet rows the uploaded files are made of: two distinct rows with the
\* same entry time, a later row, a row whose profit is no number and a row
\* whose entry time is no date (30 February)
RawRowSamples ==
    { [Entry_time |-> <<2023, 1, 30, 9>>,  Profit |-> Txt1,   Strategy |-> "A"],
      [Entry_time |-> <<2023, 1, 30, 9>>,  Profit |-> Txt2,   Strategy |-> "B"],
      [Entry_time |-> <<2023, 1, 31, 9>>,  Profit |-> Txt3,   Strategy |-> "A"],
      [Entry_time |-> <<2023, 1, 30, 15>>, Profit |-> TxtBad, Strategy |-> "B"],
      [Entry_time |-> <<2023, 2, 30, 9>>,  Profit |-> <<"1">>, Strategy |-> "A"] }

\* the sequence s of rows cut into k files at the positions c[1] <= ... <= c[k] = Len(s)
Split(s, k, c) ==
    [j \in 1..k |-> SubSeq(s, (IF j = 1 THEN 0 ELSE c[j - 1]) + 1, c[j])]

InitRest ==
    /\ dataframes = <<>>
    /\ merged_df = <<>>
    /\ selected_strategies = {}
    /\ result = <<>>
    /\ grouped_streaks = <<>>
    /\ daily_plot = <<>>

\* The uploaded files are any list of at most MaxFiles sheets holding at most
\* MaxRows rows in all. Either the script runs from its top (pc = "start"),
\* or a caller invokes load_and_merge_files on the files itself and goes on
\* as the script does (pc = "load").
Init ==
    /\ \E n \in 0..MaxRows, k \in 0..MaxFiles :
          /\ k = 0 => n = 0
          /\ \E s \in [1..n -> RawRowSamples], c \in [1..k -> 0..n] :
                /\ k > 0 => c[k] = n
                /\ \A j \in 1..(k - 1) : c[j] <= c[j + 1]
                /\ uploaded_files = Split(s, k, c)
    /\ pc \in {"start", "load"}
    /\ filtered_df = <<>>
    /\ InitRest

Spec == Init /\ [][Next]_vars

---------------------------------------------------------------------------
(* calculate_statistics as a function of any trade set *)

SampleTimestamps ==
    { [year |-> 2023, month |-> 1, day |-> 30, hour |-> 9],
      [year |-> 2023, month |-> 1, day |-> 30, hour |-> 15],
      [year |-> 2023, month |-> 1, day |-> 31, hour |-> 9],
      [year |-> 2023, month |-> 2, day |-> 2,  hour |-> 9],
      [year |-> 2024, month |-> 1, day |-> 30, hour |-> 9] }

SampleProfits ==
    { [neg |-> TRUE,  num |-> 1, scale |-> 0],
      [neg |-> FALSE, num |-> 0, scale |-> 0],
      [neg |-> FALSE, num |-> 10, scale |-> 1] }

SampleTrades ==
    [Entry_time : SampleTimestamps, Profit : SampleProfits, Strategy : {"A"}]

\* five trading days in a row with the profits -5, -3, +2, -1, -1
ScenarioTrades ==
    LET p == <<[neg |-> TRUE,  num |-> 5, scale |-> 0],
               [neg |-> TRUE,  num |-> 3, scale |-> 0],
               [neg |-> FALSE, num |-> 2, scale |-> 0],
               [neg |-> TRUE,  num |-> 1, scale |-> 0],
               [neg |-> TRUE,  num |-> 1, scale |-> 0]>>
    IN [i \in 1..5 |->
          [index      |-> i - 1,
           Entry_time |-> [year |-> 2023, month |-> 3, day |-> 5 + i, hour |-> 9],
           Profit     |-> p[i],
           Strategy   |-> "A"]]

\* the frame of the records t under a RangeIndex
FrameOf(t) ==
    [i \in DOMAIN t |->
        [index |-> i - 1, Entry_time |-> t[i].Entry_time,
         Profit |-> t[i].Profit, Strategy |-> t[i].Strategy]]

\* calculate_statistics is called on any frame of at most MaxTrades records,
\* in any order, or on the scenario
InitStats ==
    /\ uploaded_files = <<>>
    /\ pc = "stats"
    /\ \/ filtered_df = ScenarioTrades
       \/ \E n \in 0..MaxTrades : \E t \in [1..n -> SampleTrades] : filtered_df = FrameOf(t)
    /\ InitRest

NextStats ==
    \/ CalculateStatistics
    \/ StreakHistogram
    \/ DailyProfitPlot

SpecStats == InitStats /\ [][NextStats]_vars

---------------------------------------------------------------------------
(* The loader on one sheet of one row, for every profit text *)

Alphabet == {"$", ",", "(", ")", "-", ".", "0", "1"}

ExampleTexts ==
    { <<"(", "1", ",", "2", "3", "4", ".", "5", "6", ")">>,
      <<"$", "1", ",", "2", "3", "4", ".", "5", "6">>,
      <<"$", "1", "0", "0", ".", "0", "0">> }

\* one sheet of one row whose profit is an example text or any text of at
\* most MaxLen characters of the alphabet
InitNorm ==
    /\ \E n \in 0..MaxLen : \E t \in ExampleTexts \cup [1..n -> Alphabet] :
          uploaded_files =
              << <<[Entry_time |-> <<2023, 1, 30, 9>>, Profit |-> t, Strategy |-> "A"]>> >>
    /\ pc = "start"
    /\ filtered_df = <<>>
    /\ InitRest

SpecNorm == InitNorm /\ [][Next]_vars

---------------------------------------------------------------------------
(* Properties *)

AfterSort == {"filter", "stats", "hist", "plot", "done"}
AfterCall == {"hist", "plot", "done"}

RawAll == Flatten(uploaded_files)

Defaults ==
    [trades_per_day   |-> Zero,
     profit_per_day   |-> Zero,
     profit_per_month |-> Zero,
     streaks_df       |-> <<>>,
     daily_profits    |-> <<>>]

\* C4: after the load and the sort, merged_df holds exactly one row per row of
\* the uploaded files (N1+...+Nk rows, each label 0..N-1 once, each row the
\* normalised form of the sheet row of its label, identical rows all kept),
\* and the entry times do not decrease.
C4_MergeIsSortedPermutation ==
    pc \in AfterSort =>
        /\ Len(merged_df) = SeqSum([f \in DOMAIN uploaded_files |-> Len(uploaded_files[f])])
        /\ Len(merged_df) = Len(RawAll)
        /\ {merged_df[i].index : i \in DOMAIN merged_df} = 0..(Len(RawAll) - 1)
        /\ \A i \in DOMAIN merged_df :
              LET raw == RawAll[merged_df[i].index + 1]
              IN /\ <<merged_df[i].Profit>> = NormalizeProfit(raw.Profit)
                 /\ <<merged_df[i].Entry_time>> = ToDatetime(raw.Entry_time)
                 /\ merged_df[i].Strategy = raw.Strategy
        /\ \A i, j \in DOMAIN merged_df :
              i < j => TsKey(merged_df[i].Entry_time) <= TsKey(merged_df[j].Entry_time)

\* two files, the sort moved a row, and two rows of merged_df are identical
C4_Witness ==
    /\ pc = "filter"
    /\ Len(uploaded_files) = 2
    /\ uploaded_files[1] # <<>> /\ uploaded_files[2] # <<>>
    /\ merged_df[1].index # 0
    /\ \E i, j \in DOMAIN merged_df :
          /\ i # j
          /\ RawAll[merged_df[i].index + 1] = RawAll[merged_df[j].index + 1]

\* C5: after the sort, rows with the same entry time are in the order of the
\* concatenation (ascending labels).
C5_SortIsStable ==
    pc \in AfterSort =>
        \A i, j \in DOMAIN merged_df :
            (i < j /\ merged_df[i].Entry_time = merged_df[j].Entry_time)
                => merged_df[i].index < merged_df[j].index

\* C6: a call of calculate_statistics on an empty frame returns (0, 0, 0, empty
\* streaks, empty daily series), and the histogram and daily plot steps run
\* on them to empty tables.
C6_EmptyGivesDefaults ==
    (pc \in AfterCall /\ filtered_df = <<>>) =>
        /\ result = <<Defaults>>
        /\ pc \in {"plot", "done"} => grouped_streaks = << <<>> >>
        /\ pc = "done" => daily_plot = << <<>> >>

\* the filter selected no record of a non-empty merged frame, and the script ended
C6_Witness ==
    /\ pc = "done"
    /\ merged_df # <<>>
    /\ selected_strategies = {}
    /\ filtered_df = <<>>
    /\ result = <<Defaults>>

\* C7: with zero sources the load ends without error and the statistics are
\* the defaults.
C7_ZeroSourcesGiveDefaults ==
    uploaded_files = <<>> =>
        /\ pc # "error"
        /\ pc \in {"idle", "done"} => result = <<Defaults>>

C9_BadProfit(r) == NormalizeProfit(r.Profit) = <<>>
C9_BadTime(r) == ToDatetime(r.Entry_time) = <<>>

InDate(r) == <<r.Entry_time.year, r.Entry_time.month, r.Entry_time.day>>
InMonth(r) == <<r.Entry_time.year, r.Entry_time.month>>
InDates == {InDate(filtered_df[i]) : i \in DOMAIN filtered_df}
InMonths == {InMonth(filtered_df[i]) : i \in DOMAIN filtered_df}
OnDate(d) == SelectSeq(filtered_df, LAMBDA r : InDate(r) = d)
DateTriple(d) == <<d.year, d.month, d.day>>
TripleBefore(a, b) ==
    \/ a[1] < b[1]
    \/ a[1] = b[1] /\ a[2] < b[2]
    \/ a[1] = b[1] /\ a[2] = b[2] /\ a[3] < b[3]

\* the exact total of the profits of a sequence of rows, in units of 10^-s
TotalAt(rows, s) == SeqSum([i \in DOMAIN rows |-> Signed(rows[i].Profit, s)])
InScale == MaxScale([i \in DOMAIN filtered_df |-> filtered_df[i].Profit])

Series == result[1].daily_profits
Streaks == result[1].streaks_df
Loss(i) == Series[i].Profit.val < 0

\* the maximal runs <<first, last>> of adjacent loss days of the series
MaximalRuns ==
    {r \in (DOMAIN Series) \X (DOMAIN Series) :
        /\ r[1] <= r[2]
        /\ \A i \in r[1]..r[2] : Loss(i)
        /\ r[1] = 1 \/ ~Loss(r[1] - 1)
        /\ r[2] = Len(Series) \/ ~Loss(r[2] + 1)}

\* C1: for a non-empty trade set the streaks returned are exactly the maximal
\* runs of loss days (summed profit < 0) of the daily series in ascending
\* date order: one streak per run, in series order, with the run's length
\* and the date of its first day; adjacency is by position in the series;
\* streak lengths plus non-loss days add up to the distinct trading days.
C1_StreaksAreMaximalLossRuns ==
    (pc \in AfterCall /\ filtered_df # <<>>) =>
        /\ \A i, j \in DOMAIN Series :
              i < j => TripleBefore(DateTriple(Series[i].Date), DateTriple(Series[j].Date))
        /\ \A i \in DOMAIN Series :
              Loss(i) <=> TotalAt(OnDate(DateTriple(Series[i].Date)), InScale) < 0
        /\ Len(Streaks) = Cardinality(MaximalRuns)
        /\ \A k \in DOMAIN Streaks :
              \E r \in MaximalRuns :
                 /\ Cardinality({q \in MaximalRuns : q[1] < r[1]}) = k - 1
                 /\ Streaks[k].Consecutive_Loss_Days = r[2] - r[1] + 1
                 /\ Streaks[k].Start_Date =
                       <<Series[r[1]].Date.day, Series[r[1]].Date.month, Series[r[1]].Date.year>>
        /\ SeqSum([k \in DOMAIN Streaks |-> Streaks[k].Consecutive_Loss_Days])
              + Cardinality({i \in DOMAIN Series : ~Loss(i)}) = Cardinality(InDates)
        /\ Len(Series) = Cardinality(InDates)

\* the scenario: the streaks are (2 days from day 1) and (2 days from day 4),
\* and the mean profit per day is -8/5
C1_Witness ==
    /\ pc = "done"
    /\ Len(Series) = 5
    /\ Streaks = << [index |-> 0, Consecutive_Loss_Days |-> 2, Start_Date |-> <<6, 3, 2023>>],
                    [index |-> 1, Consecutive_Loss_Days |-> 2, Start_Date |-> <<9, 3, 2023>>] >>
    /\ result[1].profit_per_day = [num |-> -8, scale |-> 0, den |-> 5]

\* C2: for a non-empty trade set with D distinct dates and M distinct
\* (year, month) pairs, avg_trades_per_day * D is the number of records and
\* avg_profit_per_day * D and avg_profit_per_month * M are the total profit.
C2_MeansTimesCountsAreTotals ==
    (pc \in AfterCall /\ filtered_df # <<>>) =>
        LET D  == Cardinality(InDates)
            M  == Cardinality(InMonths)
            td == result[1].trades_per_day
            pd == result[1].profit_per_day
            pm == result[1].profit_per_month
        IN /\ td.den # 0 /\ pd.den # 0 /\ pm.den # 0
           /\ td.num * D = Len(filtered_df) * Pow10(td.scale) * td.den
           /\ pd.num * D * Pow10(InScale) = TotalAt(filtered_df, InScale) * Pow10(pd.scale) * pd.den
           /\ pm.num * M * Pow10(InScale) = TotalAt(filtered_df, InScale) * Pow10(pm.scale) * pm.den

\* two trades on one day and a trade in the same month of another year, with
\* a total profit that is not zero
C2_Witness ==
    /\ pc = "done"
    /\ Len(filtered_df) = 3
    /\ Cardinality(InDates) = 2
    /\ Cardinality(InMonths) = 2
    /\ \E i, j \in DOMAIN filtered_df :
          /\ filtered_df[i].Entry_time.month = filtered_df[j].Entry_time.month
          /\ filtered_df[i].Entry_time.year # filtered_df[j].Entry_time.year
    /\ TotalAt(filtered_df, InScale) = -3

\* C3: the per-day aggregation of any record set, in any order, has one entry
\* per distinct date of the input and no other, in ascending date order;
\* each total_profit is the sum over the records of that date, each
\* trade_count is their number (>= 1), and the counts add up to the number
\* of records.
C3_DailyAggregation ==
    pc \in AfterCall =>
        LET counts == trades_by_day(filtered_df)
        IN /\ Len(Series) = Len(counts)
           /\ \A j \in DOMAIN Series : counts[j].Date = Series[j].Date
           /\ {DateTriple(Series[j].Date) : j \in DOMAIN Series} = InDates
           /\ \A i, j \in DOMAIN Series :
                 i < j => TripleBefore(DateTriple(Series[i].Date), DateTriple(Series[j].Date))
           /\ \A j \in DOMAIN Series :
                 LET rows == OnDate(DateTriple(Series[j].Date))
                 IN /\ Series[j].Profit.val * Pow10(InScale)
                          = TotalAt(rows, InScale) * Pow10(Series[j].Profit.scale)
                    /\ counts[j].size = Len(rows)
                    /\ counts[j].size >= 1
           /\ SeqSum([j \in DOMAIN counts |-> counts[j].size]) = Len(filtered_df)

\* the records were given out of time order, two of them on the same date
\* with profits that do not cancel
C3_Witness ==
    /\ pc = "done"
    /\ Len(filtered_df) = 3
    /\ TsKey(filtered_df[1].Entry_time) > TsKey(filtered_df[3].Entry_time)
    /\ Len(Series) = 2
    /\ Series[1].Profit.val = -2

\* C10: a call of calculate_statistics leaves the frame it was given with the
\* columns it had (nothing added).
C10_InputUnchanged ==
    \A i \in DOMAIN filtered_df :
        DOMAIN filtered_df[i] = {"index", "Entry_time", "Profit", "Strategy"}

C8_Text == uploaded_files[1][1].Profit

\* the float the loader produced for the one cell, once it has
C8_Loaded == dataframes # <<>> \/ merged_df # <<>>
C8_Value == IF dataframes # <<>> THEN dataframes[1][1].Profit ELSE merged_df[1].Profit

\* digits, with ',' between digits allowed before an optional '.' and digits
C8_Unsigned(b) ==
    /\ b # <<>>
    /\ \A i \in DOMAIN b : b[i] \in Digits \cup {",", "."}
    /\ b[1] \in Digits /\ b[Len(b)] \in Digits
    /\ Cardinality({i \in DOMAIN b : b[i] = "."}) <= 1
    /\ \A i \in DOMAIN b :
          b[i] = "," => /\ b[i - 1] \in Digits /\ b[i + 1] \in Digits
                        /\ \A j \in 1..i : b[j] # "."
\* ... with an optional '$' before it
C8_Amount(b) == C8_Unsigned(b) \/ (b # <<>> /\ b[1] = "$" /\ C8_Unsigned(Tail(b)))
\* the accepted shapes: an amount, an amount after '-', an amount in parentheses
C8_Accepted(t) ==
    \/ C8_Amount(t)
    \/ t # <<>> /\ t[1] = "-" /\ C8_Amount(Tail(t))
    \/ Len(t) >= 3 /\ t[1] = "(" /\ t[Len(t)] = ")" /\ C8_Amount(SubSeq(t, 2, Len(t) - 1))

\* the number written by the digits of t: all digits in order, and how many
\* of them follow the '.'
C8_DigitsOf(t) == SelectSeq(t, LAMBDA c : c \in Digits)
C8_FractionDigits(t) ==
    Cardinality({i \in DOMAIN t :
                    t[i] \in Digits /\ \E j \in 1..i : t[j] = "."})

\* C8: whenever the loader yields a number for a profit text, its magnitude
\* is the number written by the digits of the text (every '$', ',' and ')'
\* ignored) and its sign is negative exactly when the text, read without
\* '$', ',' and ')', begins with '(' or '-'; every text of an accepted shape
\* does yield a number, negative exactly when it is parenthesised or has a
\* minus sign; "(1,234.56)" gives -1234.56 and "$1,234.56" gives 1234.56.
C8_NormalizationRule ==
    /\ C8_Loaded =>
          LET kept == SelectSeq(C8_Text, LAMBDA c : c \notin {"$", ",", ")"})
          IN /\ C8_Value.num = DigitsToNat(C8_DigitsOf(C8_Text))
             /\ C8_Value.scale = C8_FractionDigits(C8_Text)
             /\ C8_Value.neg <=> kept[1] \in {"(", "-"}
    /\ C8_Accepted(C8_Text) =>
          /\ pc # "error"
          /\ C8_Loaded =>
                (C8_Value.neg <=> \E i \in DOMAIN C8_Text : C8_Text[i] \in {"(", "-"})
    /\ (C8_Loaded /\ C8_Text = <<"(", "1", ",", "2", "3", "4", ".", "5", "6", ")">>) =>
          C8_Value = [neg |-> TRUE, num |-> 123456, scale |-> 2]
    /\ (C8_Loaded /\ C8_Text = <<"$", "1", ",", "2", "3", "4", ".", "5", "6">>) =>
          C8_Value = [neg |-> FALSE, num |-> 123456, scale |-> 2]

\* "(1,234.56)" went through the loader and became -1234.56
C8_Witness ==
    /\ pc = "sort"
    /\ C8_Text = <<"(", "1", ",", "2", "3", "4", ".", "5", "6", ")">>
    /\ merged_df[1].Profit = [neg |-> TRUE, num |-> 123456, scale |-> 2]

=============================================================================
